---- MODULE Spec2Model ----
(***************************************************************************)
(* Model of appui.ContainersWidget (src/appui/containers.go): a sortable,  *)
(* filterable, windowed list of container rows.                            *)
(*                                                                         *)
(* Texts (Go strings) are sequences: field texts are sequences of          *)
(* character codes compared bytewise as Go's < does, header titles are     *)
(* sequences of one-character strings.  Slices are sequences; a Go index i *)
(* is the TLA+ index i + 1.                                                *)
(*                                                                         *)
(* Painting geometry (SetX, SetY, SetWidth, GetHeight of the termui        *)
(* primitives) is left to the canvas and is not part of the state here.    *)
(***************************************************************************)
EXTENDS Integers, Sequences, FiniteSets, TLC

VARIABLES
    containers,         \* s.containers: the row collection
    showAllContainers,  \* s.showAllContainers
    header,             \* s.header: the column titles of the table header
    sortMode,           \* s.sortMode
    filterPattern,      \* s.filterPattern
    mounted,            \* s.mounted
    selectedIndex,      \* s.selectedIndex
    height,             \* s.height
    startIndex,         \* s.startIndex
    endIndex,           \* s.endIndex
    lastOp,             \* the operation that ran last
    outcome,            \* how it ended: "ok", "error" (an error returned), "panic"
    position,           \* the cursor position the last Buffer read: <<p>>, or <<>>
    buf,                \* the buffer the last Buffer returned
    fetches,            \* the calls of dockerDaemon.Containers the last operation made
    dispatched,         \* the container IDs the last OnEvent handed to its command
    pc,                 \* per thread: where it is inside a widget operation
    lock                \* the holder of the widget's RWMutex, or "free"

widget == <<containers, showAllContainers, header, sortMode, filterPattern,
            mounted, selectedIndex, height, startIndex, endIndex>>
results == <<lastOp, outcome, position, buf, fetches, dispatched>>
threads == <<pc, lock>>
vars == <<containers, showAllContainers, header, sortMode, filterPattern,
          mounted, selectedIndex, height, startIndex, endIndex,
          lastOp, outcome, position, buf, fetches, dispatched, pc, lock>>

(***************************************************************************)
(* Bounds of the model.                                                    *)
(***************************************************************************)
\* the containers the daemon may know of
NumContainers == 3
\* the largest screen height a widget is created with
MaxHeight == 2

\* MainScreenAvailableHeight(): negative when the terminal is too small
Heights == -1 .. MaxHeight
\* ui.ActiveScreen.Cursor.Position(): on a row, or one or more past the last
CursorPositions == 0 .. NumContainers
NoPosition == <<>>

(***************************************************************************)
(* Sort modes (docker.SortMode) and texts.                                 *)
(***************************************************************************)
NoSort == "NoSort"
SortByContainerID == "SortByContainerID"
SortByImage == "SortByImage"
SortByStatus == "SortByStatus"
SortByName == "SortByName"

\* Go's a < b on strings: bytewise lexicographic order.
RECURSIVE StringLess(_, _)
StringLess(a, b) ==
    IF b = <<>> THEN FALSE
    ELSE IF a = <<>> THEN TRUE
    ELSE IF Head(a) < Head(b) THEN TRUE
    ELSE IF Head(a) > Head(b) THEN FALSE
    ELSE StringLess(Tail(a), Tail(b))

\* strings.Contains(s, substr)
StringsContains(s, substr) ==
    \E i \in 0 .. (Len(s) - Len(substr)) : SubSeq(s, i + 1, i + Len(substr)) = substr

(***************************************************************************)
(* The docker daemon: the containers it may report.                        *)
(***************************************************************************)
Container(k) ==
    [ID      |-> <<k>>,
     Image   |-> <<1 + (k % 2)>>,
     Status  |-> <<3 - (k % 3)>>,
     Names   |-> <<(IF k % 3 = 1 THEN 2 ELSE 1), k + 3>>,
     Running |-> (k % 3) # 0]

RECURSIVE Ascending(_)
Ascending(S) ==
    IF S = {} THEN <<>>
    ELSE LET m == CHOOSE x \in S : \A y \in S : x <= y
         IN  <<m>> \o Ascending(S \ {m})

\* docker.ContainerFilters.Unfiltered() and .Running()
Unfiltered == "Unfiltered"
RunningFilter == "Running"

PassesFilters(container, filters) ==
    \A i \in 1 .. Len(filters) : filters[i] = RunningFilter => container.Running

\* dockerDaemon.Containers(filters, mode): the daemon knows the first n
\* containers, for some n, and reports those that pass the filters, oldest
\* first.  The sort directive is a hint it may ignore.
DaemonContainers(filters, mode) ==
    LET known(n) == {k \in 1 .. n : PassesFilters(Container(k), filters)}
        report(n) == Ascending(known(n))
    IN  {[i \in 1 .. Len(report(n)) |-> Container(report(n)[i])] : n \in 0 .. NumContainers}

\* The filter patterns the user types: none, and one that matches the names
\* of some containers and, of some snapshots, no name at all.
FilterPatterns == {<<>>, <<1>>}

(***************************************************************************)
(* Rows.                                                                   *)
(***************************************************************************)
NewContainerRow(container) ==
    [container   |-> container,
     ID          |-> container.ID,
     Image       |-> container.Image,
     Status      |-> container.Status,
     Names       |-> container.Names,
     highlighted |-> FALSE]

Highlighted(row) == [row EXCEPT !.highlighted = TRUE]
NotHighlighted(row) == [row EXCEPT !.highlighted = FALSE]

\* containerRowFilters.ByName(pattern).Apply(rows)
RECURSIVE ByNameApply(_, _)
ByNameApply(pattern, rows) ==
    IF rows = <<>> THEN <<>>
    ELSE IF StringsContains(Head(rows).Names, pattern)
         THEN <<Head(rows)>> \o ByNameApply(pattern, Tail(rows))
         ELSE ByNameApply(pattern, Tail(rows))

\* applyFilters with its test of the pattern inverted.
applyFiltersInverted(rows, pattern) ==
    IF pattern = <<>> THEN ByNameApply(pattern, rows) ELSE rows

applyFilters(rows, pattern) ==
    IF pattern # <<>> THEN ByNameApply(pattern, rows) ELSE rows

(***************************************************************************)
(* The table header.                                                       *)
(***************************************************************************)
DownArrow == <<"e2", "86", "93">>
DownArrowLength == Len(DownArrow)

containerTableHeaders ==
    << [Title |-> <<>>, Mode |-> NoSort],
       [Title |-> <<"C", "O", "N", "T", "A", "I", "N", "E", "R">>, Mode |-> SortByContainerID],
       [Title |-> <<"I", "M", "A", "G", "E">>, Mode |-> SortByImage],
       [Title |-> <<"C", "O", "M", "M", "A", "N", "D">>, Mode |-> NoSort],
       [Title |-> <<"S", "T", "A", "T", "U", "S">>, Mode |-> SortByStatus],
       [Title |-> <<"P", "O", "R", "T", "S">>, Mode |-> NoSort],
       [Title |-> <<"N", "A", "M", "E", "S">>, Mode |-> SortByName] >>

containerTableHeader ==
    [i \in 1 .. Len(containerTableHeaders) |-> containerTableHeaders[i].Title]

\* The loop body without lines 231 to 233: a marked title is not stripped.
updateColumnNoStrip(text, mode) ==
    LET matches == {i \in 1 .. Len(containerTableHeaders) :
                        containerTableHeaders[i].Title = text}
        hdr == IF matches = {}
               THEN [Title |-> <<>>, Mode |-> NoSort]
               ELSE containerTableHeaders[CHOOSE i \in matches : \A j \in matches : i <= j]
    IN  IF hdr.Mode = mode THEN DownArrow \o text ELSE text

\* One column of updateTableHeader's loop.
updateColumn(text, mode) ==
    LET colTitle == IF StringsContains(text, DownArrow)
                    THEN SubSeq(text, DownArrowLength + 1, Len(text))
                    ELSE text
        matches == {i \in 1 .. Len(containerTableHeaders) :
                        containerTableHeaders[i].Title = colTitle}
        hdr == IF matches = {}
               THEN [Title |-> <<>>, Mode |-> NoSort]
               ELSE containerTableHeaders[CHOOSE i \in matches : \A j \in matches : i <= j]
    IN  IF hdr.Mode = mode THEN DownArrow \o colTitle ELSE colTitle

updateTableHeader(columns, mode) ==
    [i \in 1 .. Len(columns) |-> updateColumn(columns[i], mode)]

(***************************************************************************)
(* Sorting.                                                                *)
(***************************************************************************)
SortKey(row, mode) ==
    CASE mode = SortByContainerID -> row.ID
      [] mode = SortByImage -> row.Image
      [] mode = SortByStatus -> row.Status
      [] mode = SortByName -> row.Names

sortAlg(mode, a, b) == StringLess(SortKey(a, mode), SortKey(b, mode))

\* sort.SliceStable: the sorted permutation in which rows that compare equal
\* keep their order, built by inserting each row behind its equals.
RECURSIVE SliceStable(_, _)
SliceStable(rows, mode) ==
    IF rows = <<>> THEN <<>>
    ELSE LET n == Len(rows)
             front == SliceStable(SubSeq(rows, 1, n - 1), mode)
             x == rows[n]
             after == {i \in 1 .. Len(front) : sortAlg(mode, x, front[i])}
             at == IF after = {} THEN Len(front) + 1
                   ELSE CHOOSE i \in after : \A j \in after : i <= j
         IN  SubSeq(front, 1, at - 1) \o <<x>> \o SubSeq(front, at, Len(front))

\* A sort that is not stable: each row is inserted in front of its equals.
RECURSIVE SliceBeforeEquals(_, _)
SliceBeforeEquals(rows, mode) ==
    IF rows = <<>> THEN <<>>
    ELSE LET n == Len(rows)
             front == SliceBeforeEquals(SubSeq(rows, 1, n - 1), mode)
             x == rows[n]
             notBefore == {i \in 1 .. Len(front) : ~sortAlg(mode, front[i], x)}
             at == IF notBefore = {} THEN Len(front) + 1
                   ELSE CHOOSE i \in notBefore : \A j \in notBefore : i <= j
         IN  SubSeq(front, 1, at - 1) \o <<x>> \o SubSeq(front, at, Len(front))

sortRowsUnstable(rows, mode) ==
    IF mode = NoSort THEN rows ELSE SliceBeforeEquals(rows, mode)

sortRows(rows, mode) ==
    IF mode = NoSort THEN rows ELSE SliceStable(rows, mode)

\* A rotation that leaves SortByName for NoSort.
RotateIntoNoSort(mode) ==
    CASE mode = SortByContainerID -> SortByImage
      [] mode = SortByImage -> SortByStatus
      [] mode = SortByStatus -> SortByName
      [] mode = SortByName -> NoSort
      [] OTHER -> SortByContainerID

\* The switch of Sort.
Rotate(mode) ==
    CASE mode = SortByContainerID -> SortByImage
      [] mode = SortByImage -> SortByStatus
      [] mode = SortByStatus -> SortByName
      [] mode = SortByName -> SortByContainerID
      [] OTHER -> mode

(***************************************************************************)
(* Selection and window.                                                   *)
(***************************************************************************)
RowCount(rows) == Len(rows)

\* highlightSelectedRow: the rows and the selected index it leaves.
highlightSelectedRow(rows, selected, cursor) ==
    IF RowCount(rows) = 0
    THEN [rows |-> rows, selectedIndex |-> selected]
    ELSE LET index == IF cursor > RowCount(rows) THEN RowCount(rows) - 1 ELSE cursor
         IN  [rows |-> [i \in 1 .. Len(rows) |->
                            IF i - 1 # index THEN NotHighlighted(rows[i])
                            ELSE Highlighted(rows[i])],
              selectedIndex |-> index]

\* The if-chain without its third branch, lines 300 to 302.
windowNoStep(count, h, start, end, selected) ==
    IF selected = 0 THEN [startIndex |-> 0, endIndex |-> h]
    ELSE IF selected >= count - 1 THEN [startIndex |-> count - h, endIndex |-> count]
    ELSE IF selected <= start THEN [startIndex |-> start - 1, endIndex |-> end - 1]
    ELSE IF selected > end THEN [startIndex |-> selected - h, endIndex |-> selected]
    ELSE [startIndex |-> start, endIndex |-> end]

\* The if-chain without its second branch, lines 297 to 299.
windowNoEndSnap(count, h, start, end, selected) ==
    IF selected = 0 THEN [startIndex |-> 0, endIndex |-> h]
    ELSE IF selected = end THEN [startIndex |-> start + 1, endIndex |-> end + 1]
    ELSE IF selected <= start THEN [startIndex |-> start - 1, endIndex |-> end - 1]
    ELSE IF selected > end THEN [startIndex |-> selected - h, endIndex |-> selected]
    ELSE [startIndex |-> start, endIndex |-> end]

\* The window chosen by the if-chain of visibleRows when not everything fits.
window(count, h, start, end, selected) ==
    IF selected = 0 THEN [startIndex |-> 0, endIndex |-> h]
    ELSE IF selected >= count - 1 THEN [startIndex |-> count - h, endIndex |-> count]
    ELSE IF selected = end THEN [startIndex |-> start + 1, endIndex |-> end + 1]
    ELSE IF selected <= start THEN [startIndex |-> start - 1, endIndex |-> end - 1]
    ELSE IF selected > end THEN [startIndex |-> selected - h, endIndex |-> selected]
    ELSE [startIndex |-> start, endIndex |-> end]

\* rows[start:end] is taken within the sequence.  Outside it Go panics
\* (slice bounds out of range), or, where spare capacity of a filtered
\* slice lets the expression through, hands nil rows to the loop of Buffer.
SliceInBounds(count, start, end) == 0 <= start /\ start <= end /\ end <= count

\* visibleRows without the test of lines 290 to 292: it windows rows that fit.
visibleRowsNoFit(rows, pattern, h, start, end, selected) ==
    IF h < 0
    THEN [startIndex |-> start, endIndex |-> end, panic |-> FALSE, rows |-> <<>>]
    ELSE LET filtered == applyFilters(rows, pattern)
             count == Len(filtered)
             w == window(count, h, start, end, selected)
         IN  IF SliceInBounds(count, w.startIndex, w.endIndex)
             THEN [startIndex |-> w.startIndex, endIndex |-> w.endIndex,
                   panic |-> FALSE,
                   rows |-> SubSeq(filtered, w.startIndex + 1, w.endIndex)]
             ELSE [startIndex |-> w.startIndex, endIndex |-> w.endIndex,
                   panic |-> TRUE, rows |-> <<>>]

\* visibleRows: the window it leaves, whether it panicked, the rows it returns.
visibleRows(rows, pattern, h, start, end, selected) ==
    IF h < 0
    THEN [startIndex |-> start, endIndex |-> end, panic |-> FALSE, rows |-> <<>>]
    ELSE LET filtered == applyFilters(rows, pattern)
             count == Len(filtered)
         IN  IF count <= h
             THEN [startIndex |-> start, endIndex |-> end, panic |-> FALSE,
                   rows |-> filtered]
             ELSE LET w == window(count, h, start, end, selected)
                  IN  IF SliceInBounds(count, w.startIndex, w.endIndex)
                      THEN [startIndex |-> w.startIndex, endIndex |-> w.endIndex,
                            panic |-> FALSE,
                            rows |-> SubSeq(filtered, w.startIndex + 1, w.endIndex)]
                      ELSE [startIndex |-> w.startIndex, endIndex |-> w.endIndex,
                            panic |-> TRUE, rows |-> <<>>]

(***************************************************************************)
(* The buffer: what Buffer merges, in order.                               *)
(***************************************************************************)
WidgetHeader(count, pattern) ==
    [kind |-> "WidgetHeader", title |-> "Containers", count |-> count, filter |-> pattern]
HeaderBuffer(columns) == [kind |-> "TableHeader", columns |-> columns]
RowBuffer(row) == [kind |-> "Row", row |-> row]

NewBuffer == <<>>


(***************************************************************************)
(* The operations: what each does to the widget and what it returns.  The  *)
(* cursor position is read from the screen when Buffer runs.               *)
(***************************************************************************)
\* Lines 70 to 94 of Buffer, with the cursor at `selected`: sort, refresh
\* the header, highlight, merge the visible rows.
BufferMounted(selected) ==
    LET sorted == sortRows(containers, sortMode)
        hl == highlightSelectedRow(sorted, selectedIndex, selected)
        vis == visibleRows(hl.rows, filterPattern, height, startIndex, endIndex,
                           selected)
    IN  /\ containers' = hl.rows
        /\ header' = updateTableHeader(header, sortMode)
        /\ selectedIndex' = hl.selectedIndex
        /\ startIndex' = vis.startIndex
        /\ endIndex' = vis.endIndex
        /\ outcome' = IF vis.panic THEN "panic" ELSE "ok"
        /\ buf' = IF vis.panic THEN NewBuffer
                  ELSE <<WidgetHeader(RowCount(sorted), filterPattern),
                         HeaderBuffer(header')>>
                       \o [i \in 1 .. Len(vis.rows) |-> RowBuffer(vis.rows[i])]
        /\ UNCHANGED <<showAllContainers, sortMode, filterPattern, mounted, height>>

\* Buffer that renders whether mounted or not.
BufferBodyUnguarded(selected) == BufferMounted(selected)

\* The body of Buffer, lines 67 to 96.
BufferBody(selected) ==
    IF mounted
    THEN BufferMounted(selected)
    ELSE /\ buf' = NewBuffer
         /\ outcome' = "ok"
         /\ UNCHANGED widget

\* Whether Buffer asks the screen for the cursor position: at line 211 when
\* mounted with rows, at line 288 when mounted with a screen height.
ReadsCursor == mounted /\ (RowCount(containers) # 0 \/ height >= 0)

BufferCall ==
    /\ IF ReadsCursor
       THEN \E selected \in CursorPositions :
                position' = <<selected>> /\ BufferBody(selected)
       ELSE position' = NoPosition /\ BufferBody(0)
    /\ lastOp' = "Buffer"
    /\ fetches' = <<>>
    /\ dispatched' = <<>>

\* Filter that drops the rows its pattern hides from the collection.
FilterCallNarrowing ==
    /\ \E filter \in FilterPatterns :
            /\ filterPattern' = filter
            /\ containers' = applyFilters(containers, filter)
    /\ lastOp' = "Filter"
    /\ outcome' = "ok"
    /\ position' = NoPosition
    /\ buf' = NewBuffer
    /\ fetches' = <<>>
    /\ dispatched' = <<>>
    /\ UNCHANGED <<showAllContainers, header, sortMode, mounted,
                   selectedIndex, height, startIndex, endIndex>>

FilterCall ==
    /\ \E filter \in FilterPatterns : filterPattern' = filter
    /\ lastOp' = "Filter"
    /\ outcome' = "ok"
    /\ position' = NoPosition
    /\ buf' = NewBuffer
    /\ fetches' = <<>>
    /\ dispatched' = <<>>
    /\ UNCHANGED <<containers, showAllContainers, header, sortMode, mounted,
                   selectedIndex, height, startIndex, endIndex>>

\* Mount with the two filters taken for each other.
MountFiltersSwapped(showAll) ==
    IF showAll THEN <<RunningFilter>> ELSE <<Unfiltered>>

\* The filters Mount hands to the daemon, lines 113 to 118.
MountFilters(showAll) ==
    IF showAll THEN <<Unfiltered>> ELSE <<RunningFilter>>

\* Lines 119 to 125 of Mount: fetch, wrap each container as a row, store.
MountFetch ==
    \E dockerContainers \in DaemonContainers(MountFilters(showAllContainers), sortMode) :
        /\ fetches' = <<[filters |-> MountFilters(showAllContainers), mode |-> sortMode,
                         result |-> dockerContainers]>>
        /\ containers' = [i \in 1 .. Len(dockerContainers) |->
                            NewContainerRow(dockerContainers[i])]

\* Mount that fetches whether mounted or not.
MountBodyUnguarded ==
    /\ MountFetch
    /\ mounted' = TRUE
    /\ UNCHANGED <<showAllContainers, header, sortMode, filterPattern,
                   selectedIndex, height, startIndex, endIndex>>

\* The body of Mount, lines 111 to 129.
MountBody ==
    IF ~mounted
    THEN /\ MountFetch
         /\ mounted' = TRUE
         /\ UNCHANGED <<showAllContainers, header, sortMode, filterPattern,
                        selectedIndex, height, startIndex, endIndex>>
    ELSE /\ fetches' = <<>>
         /\ UNCHANGED widget

MountCall ==
    /\ MountBody
    /\ lastOp' = "Mount"
    /\ outcome' = "ok"
    /\ position' = NoPosition
    /\ buf' = NewBuffer
    /\ dispatched' = <<>>

\* s.containers[s.selectedIndex].container.ID handed to the command, whose
\* result OnEvent returns; an index outside the slice panics.
OnEventIndex(rows, index) ==
    IF 0 <= index /\ index < Len(rows)
    THEN [outcome |-> "ok", dispatched |-> <<rows[index + 1].container.ID>>]
    ELSE [outcome |-> "panic", dispatched |-> <<>>]

\* OnEvent that indexes the slice without looking at its length.
OnEventBodyUnguarded(rows, index) == OnEventIndex(rows, index)

\* The body of OnEvent, lines 139 to 142.
OnEventBody(rows, index) ==
    IF Len(rows) > 0
    THEN OnEventIndex(rows, index)
    ELSE [outcome |-> "error", dispatched |-> <<>>]

OnEventCall ==
    /\ outcome' = OnEventBody(containers, selectedIndex).outcome
    /\ dispatched' = OnEventBody(containers, selectedIndex).dispatched
    /\ lastOp' = "OnEvent"
    /\ position' = NoPosition
    /\ buf' = NewBuffer
    /\ fetches' = <<>>
    /\ UNCHANGED widget

SortCall ==
    /\ sortMode' = Rotate(sortMode)
    /\ lastOp' = "Sort"
    /\ outcome' = "ok"
    /\ position' = NoPosition
    /\ buf' = NewBuffer
    /\ fetches' = <<>>
    /\ dispatched' = <<>>
    /\ UNCHANGED <<containers, showAllContainers, header, filterPattern, mounted,
                   selectedIndex, height, startIndex, endIndex>>

ToggleShowAllContainersCall ==
    /\ showAllContainers' = ~showAllContainers
    /\ mounted' = FALSE
    /\ lastOp' = "ToggleShowAllContainers"
    /\ outcome' = "ok"
    /\ position' = NoPosition
    /\ buf' = NewBuffer
    /\ fetches' = <<>>
    /\ dispatched' = <<>>
    /\ UNCHANGED <<containers, header, sortMode, filterPattern,
                   selectedIndex, height, startIndex, endIndex>>

UnmountCall ==
    /\ mounted' = FALSE
    /\ lastOp' = "Unmount"
    /\ outcome' = "ok"
    /\ position' = NoPosition
    /\ buf' = NewBuffer
    /\ fetches' = <<>>
    /\ dispatched' = <<>>
    /\ UNCHANGED <<containers, showAllContainers, header, sortMode, filterPattern,
                   selectedIndex, height, startIndex, endIndex>>

(***************************************************************************)
(* One caller: every operation runs to completion before the next starts.  *)
(***************************************************************************)
\* The threads that call the widget (one at a time here).
ConcurrentThreads == {"renderer", "input", "events"}

\* An unrecovered panic ends the program.
Alive == outcome # "panic"

\* NewContainersWidget
Init ==
    /\ containers = <<>>
    /\ showAllContainers = FALSE
    /\ header = containerTableHeader
    /\ sortMode = SortByContainerID
    /\ filterPattern = <<>>
    /\ mounted = FALSE
    /\ selectedIndex = 0
    /\ height \in Heights
    /\ startIndex = 0
    /\ endIndex = 0
    /\ lastOp = "NewContainersWidget"
    /\ outcome = "ok"
    /\ position = NoPosition
    /\ buf = NewBuffer
    /\ fetches = <<>>
    /\ dispatched = <<>>
    /\ pc = [t \in ConcurrentThreads |-> "idle"]
    /\ lock = "free"

Buffer == Alive /\ BufferCall /\ UNCHANGED threads

Filter == Alive /\ FilterCall /\ UNCHANGED threads

Mount == Alive /\ MountCall /\ UNCHANGED threads

OnEvent == Alive /\ OnEventCall /\ UNCHANGED threads

Sort == Alive /\ SortCall /\ UNCHANGED threads

ToggleShowAllContainers == Alive /\ ToggleShowAllContainersCall /\ UNCHANGED threads

Unmount == Alive /\ UnmountCall /\ UNCHANGED threads

Next ==
    \/ Buffer
    \/ Filter
    \/ Mount
    \/ OnEvent
    \/ Sort
    \/ ToggleShowAllContainers
    \/ Unmount

Spec == Init /\ [][Next]_vars

(***************************************************************************)
(* Concurrent callers.  The rendering driver calls Buffer, the input path  *)
(* calls the mutating operations, and events are dispatched from a third   *)
(* thread.  Lock is line 1 of every operation but OnEvent, which takes no  *)
(* lock; the deferred Unlock runs when the operation returns.              *)
(***************************************************************************)
OperationsOf(t) ==
    CASE t = "renderer" -> {"Buffer"}
      [] t = "input" -> {"Filter", "Mount", "Sort", "ToggleShowAllContainers", "Unmount"}
      [] t = "events" -> {}

\* The concurrent runs are those of a widget created with no screen height.
InitConc ==
    /\ containers = <<>>
    /\ showAllContainers = FALSE
    /\ header = containerTableHeader
    /\ sortMode = SortByContainerID
    /\ filterPattern = <<>>
    /\ mounted = FALSE
    /\ selectedIndex = 0
    /\ height = -1
    /\ startIndex = 0
    /\ endIndex = 0
    /\ lastOp = "NewContainersWidget"
    /\ outcome = "ok"
    /\ position = NoPosition
    /\ buf = NewBuffer
    /\ fetches = <<>>
    /\ dispatched = <<>>
    /\ pc = [t \in ConcurrentThreads |-> "idle"]
    /\ lock = "free"

Return(t) == pc' = [pc EXCEPT ![t] = "idle"]

\* A Lock that does not wait for the holder to unlock.
LockUnchecked(t, op) ==
    /\ Alive
    /\ pc[t] = "idle"
    /\ op \in OperationsOf(t)
    /\ lock' = t
    /\ pc' = [pc EXCEPT ![t] = op]
    /\ UNCHANGED <<widget, results>>

\* s.Lock(): blocks until the lock is free.
Lock(t, op) ==
    /\ Alive
    /\ pc[t] = "idle"
    /\ op \in OperationsOf(t)
    /\ lock = "free"
    /\ lock' = t
    /\ pc' = [pc EXCEPT ![t] = op]
    /\ UNCHANGED <<widget, results>>

\* The deferred s.Unlock().
Unlock(t) == lock' = IF lock = t THEN "free" ELSE lock

BufferReturn(t) ==
    /\ Alive /\ pc[t] = "Buffer"
    /\ BufferCall /\ Unlock(t) /\ Return(t)

FilterReturn(t) ==
    /\ Alive /\ pc[t] = "Filter"
    /\ FilterCall /\ Unlock(t) /\ Return(t)

\* Mount up to line 125: the rows are stored, the widget not yet mounted.
MountStore(t) ==
    /\ Alive /\ pc[t] = "Mount"
    /\ ~mounted
    /\ MountFetch
    /\ pc' = [pc EXCEPT ![t] = "Mount.stored"]
    /\ UNCHANGED <<showAllContainers, header, sortMode, filterPattern, mounted,
                   selectedIndex, height, startIndex, endIndex>>
    /\ UNCHANGED <<lastOp, outcome, position, buf, dispatched, lock>>

\* Mount from line 126, or all of it when the widget is mounted.
MountReturn(t) ==
    /\ Alive
    /\ \/ pc[t] = "Mount.stored" /\ mounted' = TRUE /\ UNCHANGED fetches
       \/ pc[t] = "Mount" /\ mounted /\ mounted' = mounted /\ fetches' = <<>>
    /\ lastOp' = "Mount"
    /\ outcome' = "ok"
    /\ position' = NoPosition
    /\ buf' = NewBuffer
    /\ dispatched' = <<>>
    /\ UNCHANGED <<containers, showAllContainers, header, sortMode, filterPattern,
                   selectedIndex, height, startIndex, endIndex>>
    /\ Unlock(t) /\ Return(t)

SortReturn(t) ==
    /\ Alive /\ pc[t] = "Sort"
    /\ SortCall /\ Unlock(t) /\ Return(t)

ToggleShowAllContainersReturn(t) ==
    /\ Alive /\ pc[t] = "ToggleShowAllContainers"
    /\ ToggleShowAllContainersCall /\ Unlock(t) /\ Return(t)

UnmountReturn(t) ==
    /\ Alive /\ pc[t] = "Unmount"
    /\ UnmountCall /\ Unlock(t) /\ Return(t)

\* Line 139 of OnEvent: len(s.containers) > 0, read without the lock.
OnEventLen(t) ==
    /\ Alive /\ pc[t] = "idle" /\ t = "events"
    /\ IF Len(containers) > 0
       THEN /\ pc' = [pc EXCEPT ![t] = "OnEvent.index"]
            /\ UNCHANGED results
       ELSE /\ OnEventCall
            /\ UNCHANGED pc
    /\ UNCHANGED <<widget, lock>>

\* What line 140 may read: alone, the row at the selected index; while
\* another thread is inside an operation (a data race on s.containers and
\* s.selectedIndex), any row of the slice, or an index outside it.
OnEventReads(rows, index, racing) ==
    IF racing
    THEN {OnEventIndex(rows, i) : i \in 0 .. Len(rows)}
    ELSE {OnEventIndex(rows, index)}

\* Line 140 of OnEvent, read without the lock.
OnEventRead(t) ==
    /\ Alive /\ pc[t] = "OnEvent.index"
    /\ \E r \in OnEventReads(containers, selectedIndex, lock # "free") :
            outcome' = r.outcome /\ dispatched' = r.dispatched
    /\ lastOp' = "OnEvent"
    /\ position' = NoPosition
    /\ buf' = NewBuffer
    /\ fetches' = <<>>
    /\ Return(t)
    /\ UNCHANGED <<widget, lock>>

NextConc ==
    \E t \in ConcurrentThreads :
        \/ \E op \in OperationsOf(t) : Lock(t, op)
        \/ BufferReturn(t)
        \/ FilterReturn(t)
        \/ MountStore(t)
        \/ MountReturn(t)
        \/ SortReturn(t)
        \/ ToggleShowAllContainersReturn(t)
        \/ UnmountReturn(t)
        \/ OnEventLen(t)
        \/ OnEventRead(t)

SpecConc == InitConc /\ [][NextConc]_vars

(***************************************************************************)
(* Properties.                                                             *)
(***************************************************************************)
\* The rows left after filtering, and the rows a buffer shows.
FilteredRows == applyFilters(containers, filterPattern)
TotalCount == Len(FilteredRows)
RowsOf(buffer) ==
    LET at == {i \in 1 .. Len(buffer) : buffer[i].kind = "Row"}
    IN  [i \in 1 .. Cardinality(at) |-> buffer[Len(buffer) - Cardinality(at) + i].row]
RenderedMounted == lastOp = "Buffer" /\ mounted

\* C1: after every Render of a mounted widget (of non-negative height) the
\* stored window satisfies 0 <= startIndex <= endIndex <= totalCount, has
\* exactly height rows when totalCount > height, and otherwise is the full
\* range [0, totalCount).
ViewportInvariant ==
    (RenderedMounted /\ height >= 0) =>
        /\ 0 <= startIndex /\ startIndex <= endIndex /\ endIndex <= TotalCount
        /\ TotalCount > height => endIndex - startIndex = height
        /\ TotalCount <= height => (startIndex = 0 /\ endIndex = TotalCount)

\* C2: Render is total: it never fails, whatever the height, the filter and
\* the row count; with a negative height, or a filter matching no row, it
\* shows no row.
RenderTotal ==
    lastOp = "Buffer" =>
        /\ outcome = "ok"
        /\ (mounted /\ (height < 0 \/ TotalCount = 0)) => RowsOf(buf) = <<>>

\* C3: no two threads are inside a widget operation (reading or writing the
\* widget's state) at the same time; the lock keeps every operation,
\* Dispatch included, apart from the others.
OperationsExclusive ==
    \A t, u \in ConcurrentThreads :
        (t # u /\ pc[t] # "idle") => pc[u] = "idle"

\* C4: a Dispatch that follows a Render hands the command, once, the ID of
\* the row at the cursor position in the filtered and sorted sequence that
\* Render displayed.
DispatchSelectedRow ==
    [][(/\ RenderedMounted /\ outcome = "ok"
        /\ lastOp' = "OnEvent"
        /\ position # NoPosition
        /\ position[1] < TotalCount
        /\ \E i \in 1 .. Len(RowsOf(buf)) :
               RowsOf(buf)[i].container = FilteredRows[position[1] + 1].container)
       => (/\ outcome' = "ok"
           /\ dispatched' = <<FilteredRows[position[1] + 1].container.ID>>)]_vars

\* C5: after every Render of a mounted widget with at least one row, for
\* every cursor position, selectedIndex lies in [0, rowCount-1] and the row
\* at selectedIndex, and no other, is highlighted.
SelectionClamp ==
    (RenderedMounted /\ outcome = "ok" /\ RowCount(containers) >= 1) =>
        /\ 0 <= selectedIndex /\ selectedIndex <= RowCount(containers) - 1
        /\ \A i \in 1 .. Len(containers) :
               containers[i].highlighted <=> (i - 1 = selectedIndex)

\* C6: Dispatch on an empty row collection returns the EmptyCollection
\* error, does not invoke the command and changes no field of the widget.
EmptyDispatch ==
    [][(lastOp' = "OnEvent" /\ Len(containers) = 0)
       => (outcome' = "error" /\ dispatched' = <<>> /\ UNCHANGED widget)]_vars

\* a Dispatch on a mounted widget with no rows has returned its error
EmptyDispatchWitness ==
    lastOp = "OnEvent" /\ outcome = "error" /\ mounted /\ Len(containers) = 0

\* C7: a Mount call fetches from the provider exactly once when the widget
\* is unmounted, and when it is mounted fetches nothing and changes nothing;
\* no other operation fetches, and only Unmount and ToggleShowAll unmount.
MountIdempotent ==
    [][/\ lastOp' = "Mount" =>
            IF mounted THEN fetches' = <<>> /\ UNCHANGED widget
            ELSE Len(fetches') = 1 /\ mounted'
       /\ lastOp' # "Mount" => fetches' = <<>>
       /\ (mounted /\ lastOp' \notin {"Unmount", "ToggleShowAllContainers"}) => mounted'
      ]_vars

\* a second Mount has returned without fetching, the rows of the first kept
MountIdempotentWitness ==
    lastOp = "Mount" /\ fetches = <<>> /\ mounted /\ Len(containers) > 0

\* C8: ToggleShowAll flips the show-all flag and unmounts; the widget stays
\* unmounted until the next Mount, which fetches with the unfiltered filter
\* set iff the flag is set then (running-only otherwise) and with the
\* active sort mode, and replaces the rows by those fetched.
ToggleForcesRemount ==
    [][/\ lastOp' = "ToggleShowAllContainers" =>
            (showAllContainers' = ~showAllContainers /\ ~mounted')
       /\ (~mounted /\ lastOp' # "Mount") => ~mounted'
       /\ (~mounted /\ lastOp' = "Mount") =>
            /\ Len(fetches') = 1
            /\ fetches'[1].filters =
                    (IF showAllContainers THEN <<Unfiltered>> ELSE <<RunningFilter>>)
            /\ fetches'[1].mode = sortMode
            /\ Len(containers') = Len(fetches'[1].result)
            /\ \A i \in 1 .. Len(containers') :
                    /\ containers'[i].container = fetches'[1].result[i]
                    /\ ~containers'[i].highlighted
      ]_vars

\* a Mount after a toggle has fetched all containers, a stopped one among them
ToggleForcesRemountWitness ==
    /\ lastOp = "Mount" /\ showAllContainers
    /\ Len(fetches) = 1 /\ fetches[1].filters = <<Unfiltered>>
    /\ \E i \in 1 .. Len(containers) : ~containers[i].container.Running

\* C9: Render on an unmounted widget returns an empty buffer and changes
\* nothing; Unmount and ToggleShowAll leave the widget unmounted, which it
\* stays until the next Mount, so no row is rendered in between.
RenderUnmountedNoop ==
    [][/\ (lastOp' = "Buffer" /\ ~mounted) => (buf' = NewBuffer /\ UNCHANGED widget)
       /\ lastOp' \in {"Unmount", "ToggleShowAllContainers"} => ~mounted'
       /\ (~mounted /\ lastOp' # "Mount") => ~mounted'
      ]_vars

\* a Render of an unmounted widget that keeps rows has returned nothing
RenderUnmountedNoopWitness ==
    lastOp = "Buffer" /\ ~mounted /\ Len(containers) > 0 /\ buf = NewBuffer

\* C10: each Sort call moves the sort mode one step along ByContainerID ->
\* ByImage -> ByStatus -> ByName -> ByContainerID and changes nothing else,
\* four steps lead back, and the sort mode is never NoSort.
SortCycle ==
    [m \in {SortByContainerID, SortByImage, SortByStatus, SortByName} |->
        CASE m = SortByContainerID -> SortByImage
          [] m = SortByImage -> SortByStatus
          [] m = SortByStatus -> SortByName
          [] m = SortByName -> SortByContainerID]

SortRotation ==
    /\ [](/\ sortMode \in DOMAIN SortCycle
          /\ sortMode # NoSort
          /\ Rotate(Rotate(Rotate(Rotate(sortMode)))) = sortMode)
    /\ [][lastOp' = "Sort" =>
            /\ sortMode' = SortCycle[sortMode]
            /\ UNCHANGED <<containers, showAllContainers, header, filterPattern,
                           mounted, selectedIndex, height, startIndex, endIndex>>
         ]_vars

\* a fourth Sort has brought the mode back to SortByContainerID, the rows
\* still in the order of the Render under SortByName
SortRotationWitness ==
    /\ lastOp = "Sort" /\ sortMode = SortByContainerID
    /\ header[7] = DownArrow \o containerTableHeaders[7].Title

\* The containers a row sequence shows, in order, highlighting aside.
ContainersOf(rows) == [i \in 1 .. Len(rows) |-> rows[i].container]

\* `after` holds the rows of `before`, each as often.
SameRows(before, after) ==
    /\ Len(before) = Len(after)
    /\ \A i \in 1 .. Len(before) :
            Cardinality({j \in 1 .. Len(before) : before[j].container = before[i].container})
          = Cardinality({j \in 1 .. Len(after) : after[j].container = before[i].container})

NonDecreasing(rows, mode) ==
    \A i, j \in 1 .. Len(rows) :
        i < j => ~StringLess(SortKey(rows[j], mode), SortKey(rows[i], mode))

EqualKeysKeepOrder(before, after, mode) ==
    \A i, j \in 1 .. Len(before) :
        (i < j /\ SortKey(before[i], mode) = SortKey(before[j], mode)) =>
            \E a, b \in 1 .. Len(after) :
                /\ a < b
                /\ after[a].container = before[i].container
                /\ after[b].container = before[j].container

\* C11: a Render of a mounted widget leaves the row collection a
\* permutation of what it was, non-decreasing by the field of the active
\* sort mode, rows of equal key in the order they had; a Render right after
\* a Render leaves the order as it is.
StableSortOnRender ==
    [][(lastOp' = "Buffer" /\ mounted) =>
            /\ SameRows(containers, containers')
            /\ NonDecreasing(containers', sortMode)
            /\ EqualKeysKeepOrder(containers, containers', sortMode)
            /\ lastOp = "Buffer" => ContainersOf(containers') = ContainersOf(containers)
      ]_vars

\* a Render by image has moved container 2 to the front and kept containers
\* 1 and 3, of the same image, in the order the daemon reported them
StableSortOnRenderWitness ==
    /\ lastOp = "Buffer" /\ mounted /\ sortMode = SortByImage
    /\ Len(containers) = 3
    /\ containers[1].ID = <<2>>
    /\ containers[2].ID = <<1>> /\ containers[3].ID = <<3>>
    /\ containers[2].Image = containers[3].Image

\* C12: Filter changes the filter pattern and nothing else, and fetches
\* nothing; neither Filter nor Render adds or removes a row of the
\* collection, so RowCount stays what it was for every pattern.
FilterFrame ==
    [][/\ lastOp' = "Filter" =>
            /\ filterPattern' \in FilterPatterns
            /\ UNCHANGED <<containers, showAllContainers, header, sortMode, mounted,
                           selectedIndex, height, startIndex, endIndex>>
            /\ fetches' = <<>>
       /\ lastOp' \in {"Filter", "Buffer"} =>
            /\ SameRows(containers, containers')
            /\ RowCount(containers') = RowCount(containers)
            /\ mounted' = mounted
            /\ fetches' = <<>>
      ]_vars

\* a Render under a pattern that hides some rows has kept them all
FilterFrameWitness ==
    /\ lastOp = "Buffer" /\ mounted /\ outcome = "ok"
    /\ filterPattern # <<>>
    /\ 0 < TotalCount /\ TotalCount < RowCount(containers)

\* The rows at the indices S of a row sequence, in its order.
NameMatches(rows, pattern) ==
    {i \in 1 .. Len(rows) : StringsContains(rows[i].Names, pattern)}
Subsequence(rows, S) ==
    [k \in 1 .. Cardinality(S) |->
        rows[CHOOSE i \in S : Cardinality({j \in S : j <= i}) = k]]

\* C13: the sequence Render windows is the subsequence, in the order of the
\* row collection, of the rows whose name contains the active pattern (all
\* rows for the empty pattern): the rows shown are all of it when it fits
\* the height, and its slice at the stored window otherwise.
FilterView ==
    (RenderedMounted /\ outcome = "ok" /\ height >= 0) =>
        LET view == Subsequence(containers, NameMatches(containers, filterPattern))
        IN  /\ filterPattern = <<>> => view = containers
            /\ IF Len(view) <= height
               THEN RowsOf(buf) = view
               ELSE RowsOf(buf) = SubSeq(view, startIndex + 1, endIndex)

\* a Render under a pattern shows the second and third of three rows, the
\* first being hidden
FilterViewWitness ==
    /\ RenderedMounted /\ outcome = "ok" /\ filterPattern # <<>>
    /\ Len(containers) = 3
    /\ ~StringsContains(containers[1].Names, filterPattern)
    /\ RowsOf(buf) = <<containers[2], containers[3]>>

\* C14: after every Render of a mounted widget each column title is the
\* base title, prefixed by the marker, once, iff the column's sort key is
\* the active sort mode; exactly one title carries the marker, and the
\* buffer shows these titles.
HeaderMarker ==
    RenderedMounted =>
        /\ Len(header) = Len(containerTableHeaders)
        /\ \A i \in 1 .. Len(header) :
               header[i] = IF containerTableHeaders[i].Mode = sortMode
                           THEN DownArrow \o containerTableHeaders[i].Title
                           ELSE containerTableHeaders[i].Title
        /\ Cardinality({i \in 1 .. Len(header) : StringsContains(header[i], DownArrow)}) = 1
        /\ outcome = "ok" => buf[2] = HeaderBuffer(header)

\* a Render after three Sort calls marks NAMES and no longer CONTAINER
HeaderMarkerWitness ==
    /\ RenderedMounted /\ sortMode = SortByName
    /\ header[7] = DownArrow \o containerTableHeaders[7].Title
    /\ header[2] = containerTableHeaders[2].Title

\* C15: a thread inside Buffer, or inside a mutating operation, holds the
\* lock and is the only one of the rendering and mutating threads inside an
\* operation: no Render runs between the two steps of a Mount, whose rows
\* are stored before the widget is marked mounted.
RenderAtomicity ==
    /\ pc["renderer"] # "idle" => (lock = "renderer" /\ pc["input"] = "idle")
    /\ pc["input"] # "idle" => (lock = "input" /\ pc["renderer"] = "idle")
    /\ pc["input"] = "Mount.stored" => ~mounted
    /\ lock = "free" => (pc["renderer"] = "idle" /\ pc["input"] = "idle")

\* the renderer is inside Buffer on a mounted widget with rows, the input
\* thread waiting outside
RenderAtomicityWitness ==
    /\ pc["renderer"] = "Buffer" /\ lock = "renderer"
    /\ mounted /\ Len(containers) > 1 /\ lastOp = "Mount"

\* C16 as stated: with totalCount > height >= 0, a Render with the cursor at
\* 0 leaves the window [0, height), and one with the cursor at or past
\* totalCount-1 leaves [totalCount-height, totalCount).
WindowSnapsAtBounds ==
    (RenderedMounted /\ position # NoPosition /\ height >= 0 /\ TotalCount > height) =>
        /\ position[1] = 0 => (startIndex = 0 /\ endIndex = height)
        /\ position[1] >= TotalCount - 1 =>
                (startIndex = TotalCount - height /\ endIndex = TotalCount)

\* C16 amended: the cursor at 0 leaves [0, height); the cursor at or past
\* totalCount-1, and not at 0, leaves [totalCount-height, totalCount); the
\* rows shown are those of the window.
WindowSnapsInOrder ==
    (RenderedMounted /\ position # NoPosition /\ height >= 0 /\ TotalCount > height) =>
        /\ position[1] = 0 => (startIndex = 0 /\ endIndex = height)
        /\ (position[1] # 0 /\ position[1] >= TotalCount - 1) =>
                (startIndex = TotalCount - height /\ endIndex = TotalCount)
        /\ (position[1] = 0 \/ position[1] >= TotalCount - 1) =>
                /\ outcome = "ok"
                /\ RowsOf(buf) = SubSeq(FilteredRows, startIndex + 1, endIndex)

\* a Render with the cursor past the last of three rows shows the last two
WindowSnapsInOrderWitness ==
    /\ RenderedMounted /\ height = 2 /\ TotalCount = 3
    /\ position = <<3>>
    /\ startIndex = 1 /\ endIndex = 3

\* C17: with totalCount > height, a Render with the cursor at c,
\* 0 < c < totalCount-1, moves the window [s, e) it finds to [s+1, e+1) if
\* c = e, and leaves it as it is if s < c < e.
WindowStepAndStay ==
    [][(/\ lastOp' = "Buffer" /\ mounted /\ height >= 0
        /\ position' # NoPosition
        /\ TotalCount > height
        /\ 0 < position'[1] /\ position'[1] < TotalCount - 1) =>
            /\ position'[1] = endIndex =>
                    (startIndex' = startIndex + 1 /\ endIndex' = endIndex + 1)
            /\ (startIndex < position'[1] /\ position'[1] < endIndex) =>
                    UNCHANGED <<startIndex, endIndex>>
      ]_vars

\* a Render with the cursor on the second of three rows, the height being
\* one row, shows that row
WindowStepAndStayWitness ==
    /\ RenderedMounted /\ outcome = "ok"
    /\ height = 1 /\ TotalCount = 3 /\ position = <<1>>
    /\ startIndex = 1 /\ endIndex = 2
    /\ RowsOf(buf) = <<FilteredRows[2]>>

\* C18: when the rows left by the filter fit the height (>= 0), Render
\* shows all of them, in order, whatever the cursor position and the window
\* left by earlier Renders.
FullFit ==
    (RenderedMounted /\ height >= 0 /\ TotalCount <= height) =>
        /\ outcome = "ok"
        /\ RowsOf(buf) = FilteredRows

\* two filtered rows fit and are shown with the cursor past them, the stored
\* window being the [1, 3) of an earlier Render of three rows
FullFitWitness ==
    /\ RenderedMounted /\ height = 2 /\ TotalCount = 2
    /\ position = <<3>>
    /\ startIndex = 1 /\ endIndex = 3
    /\ RowsOf(buf) = FilteredRows

\* C19: after a Render of a mounted widget with totalCount > height >= 1
\* and the cursor on a row of the filtered sequence, the window contains the
\* cursor position.
SelectionVisible ==
    (/\ RenderedMounted /\ position # NoPosition
     /\ height >= 1 /\ TotalCount > height
     /\ position[1] <= TotalCount - 1) =>
        (startIndex <= position[1] /\ position[1] < endIndex)

\* C20: whenever the row collection is not empty, selectedIndex is the
\* index of one of its rows.
SelectedInRange ==
    Len(containers) > 0 =>
        (0 <= selectedIndex /\ selectedIndex < RowCount(containers))

====
